---- MODULE Spec2Model ----
(***************************************************************************)
(* Meter dashboard (src/app.py): the data-access layer over a document     *)
(* collection `meters` and a GridFS blob store.  Every database / GridFS   *)
(* call of a function is one atomic step of the calling client; the code   *)
(* between two calls is local and belongs to the step of the next call.    *)
(* Strings are sequences of one-character strings.  An optional argument   *)
(* is <<>> for Python's None and <<x>> for the value x.                    *)
(***************************************************************************)
EXTENDS Integers, Sequences, FiniteSets, TLC

\* ------------------------------------------------------------------ bounds
NumClients == 2      \* concurrent sessions
MaxOid == 4          \* ObjectIds handed out (records and blobs)
MaxClock == 1        \* last value of the wall clock
QueryMaxOid == 6     \* ObjectIds handed out in SpecQuery
MaxPage == 1         \* largest page number asked of query_meters
MaxPageSize == 2     \* largest page size asked of query_meters

Clients == 1..NumClients

None == <<>>
Some(x) == <<x>>

\* ------------------------------------------------------------------ strings
Range(s) == {s[i] : i \in 1..Len(s)}

IsSpace(c) == c = " "

UpperChar(c) == CASE c = "m" -> "M"
                  [] c = "c" -> "C"
                  [] OTHER -> c

\* str.upper()
Upper(s) == [i \in 1..Len(s) |-> UpperChar(s[i])]

RECURSIVE LStrip(_)
LStrip(s) == IF s # <<>> /\ IsSpace(Head(s)) THEN LStrip(Tail(s)) ELSE s

RECURSIVE RStrip(_)
RStrip(s) == IF s # <<>> /\ IsSpace(s[Len(s)]) THEN RStrip(SubSeq(s, 1, Len(s) - 1)) ELSE s

\* str.strip()
Strip(s) == RStrip(LStrip(s))

\* norm(s): (s or "").strip().upper(), s an optional string
norm(s) == Upper(Strip(IF s = None THEN <<>> ELSE s[1]))

\* code points, for the store's comparison of strings
Code(c) == CASE c = " " -> 32
             [] c = "1" -> 49
             [] c = "2" -> 50
             [] c = "3" -> 51
             [] c = "C" -> 67
             [] c = "M" -> 77
             [] c = "c" -> 99
             [] c = "m" -> 109
             [] c = "x" -> 120
             [] OTHER -> 0

RECURSIVE StrLess(_, _)
StrLess(a, b) ==
    IF b = <<>> THEN FALSE
    ELSE IF a = <<>> THEN TRUE
    ELSE IF Code(Head(a)) # Code(Head(b)) THEN Code(Head(a)) < Code(Head(b))
    ELSE StrLess(Tail(a), Tail(b))

\* case-insensitive search of the literal pattern q in s ($regex q, $options i)
RegexSearchI(q, s) ==
    \E i \in 0..(Len(s) - Len(q)) :
        Upper(SubSeq(s, i + 1, i + Len(q))) = Upper(q)

\* case-insensitive full match ($regex ^f$, $options i)
RegexFullI(f, s) == Upper(s) = Upper(f)

\* float(value_str) of the add form: digits only parse, anything else raises
Digits == {"1", "2", "3"}
IsNumeric(s) == s # <<>> /\ Range(s) \subseteq Digits
RECURSIVE FloatOf(_)
FloatOf(s) == IF s = <<>> THEN 0 ELSE 10 * FloatOf(SubSeq(s, 1, Len(s) - 1)) + (Code(s[Len(s)]) - 48)

\* ------------------------------------------------------------------ inputs
MeterIdInputs == { <<" ">>, <<"m", "1">>, <<"M", "1">>, <<" ", "m", "2", " ">> }
ConsumerIdInputs == { <<>>, <<"c", "1">>, <<"C", "1">>, <<"c", "2", " ">> }
NewValueInputs == {1, 2}
ImageInputs == {"png"}
ValueStrInputs == { <<>>, <<"x">>, <<"1">> }

Opt(S) == {None} \cup {Some(x) : x \in S}

\* arguments of the concurrent sessions
RaceMeterIdInputs == { <<"m", "1">>, <<"M", "1">>, <<" ", "m", "2", " ">> }
RaceConsumerIdInputs == { <<"c", "1">>, <<"C", "1">>, <<"c", "2", " ">> }
CreateValueInputs == {1}

\* the records SpecQuery's session creates: meter id, consumer id, value
QueryCreateInputs ==
    { << <<"m", "1">>, <<"c", "3">>, 2 >>,
      << <<"M", "2">>, <<"c", "1">>, 1 >>,
      << <<"m", "3">>, <<"C", "2">>, 2 >> }

QueryTextInputs == { <<>>, <<"c", "1">> }
ConsumerFilterInputs == { <<>>, <<"c", "2">> }
SortByInputs == {"Created", "Meter ID", "Consumer ID", "Value"}
ArrowDown == "down"
ArrowUp == "up"
SortDirInputs == {ArrowDown, ArrowUp}
Oids(max_oid) == 1..max_oid

\* ------------------------------------------------------------------- state
VARIABLES
    meters,        \* db.meters: _id -> document
    blobs,         \* GridFS: file id -> stored bytes
    next_oid,      \* next fresh ObjectId
    now,           \* datetime.utcnow()
    pc,            \* per client: the call its running function makes next
    loc,           \* per client: the running function's local variables
    result,        \* per client: what its function returned or raised to its caller
    true_deletes   \* history: per _id, how many delete_meter calls returned True

vars == <<meters, blobs, next_oid, now, pc, loc, result, true_deletes>>

NoLocals == [op |-> "none"]
NoResult == [op |-> "none", status |-> "none", msg |-> <<>>]

Returned(op, value) == [op |-> op, status |-> value, msg |-> <<>>]
ValueError(op, msg) == [op |-> op, status |-> "ValueError", msg |-> msg]
StoreUnavailable(op) == [op |-> op, status |-> "StoreError", msg |-> <<>>]

Init ==
    /\ meters = <<>>
    /\ blobs = <<>>
    /\ next_oid = 1
    /\ now = 0
    /\ pc = [p \in Clients |-> "idle"]
    /\ loc = [p \in Clients |-> NoLocals]
    /\ result = [p \in Clients |-> NoResult]
    /\ true_deletes = <<>>

\* the function returns r (or raises it) to its caller
Finish(p, r) ==
    /\ pc' = [pc EXCEPT ![p] = "returned"]
    /\ loc' = [loc EXCEPT ![p] = NoLocals]
    /\ result' = [result EXCEPT ![p] = r]

\* the caller has shown the outcome; the session waits for the next action
Done(p) ==
    /\ pc[p] = "returned"
    /\ pc' = [pc EXCEPT ![p] = "idle"]
    /\ result' = [result EXCEPT ![p] = NoResult]
    /\ UNCHANGED <<meters, blobs, next_oid, now, loc, true_deletes>>

Goto(p, label, locals) ==
    /\ pc' = [pc EXCEPT ![p] = label]
    /\ loc' = [loc EXCEPT ![p] = locals]
    /\ UNCHANGED result

\* ------------------------------------------------------------ ensure_indexes
\* variant of Indexes: ensure_indexes creates no unique index
Indexes_None == [n \in {} |-> "meter_id_norm"]

\* the unique indexes of db.meters: name -> indexed field
Indexes ==
    [ uniq_meter_norm |-> "meter_id_norm",
      uniq_consumer_norm |-> "consumer_id_norm",
      uniq_meter_id |-> "meter_id",
      uniq_consumer |-> "consumer_id" ]

\* the unique indexes an insert of doc would violate
ViolatedIndexes(doc) ==
    { n \in DOMAIN Indexes :
        \E i \in DOMAIN meters : meters[i][Indexes[n]] = doc[Indexes[n]] }

\* `sub in msg`, msg the DuplicateKeyError text naming the violated index
NameInMessage(sub, index) ==
    \/ sub = index
    \/ sub = "uniq_consumer" /\ index = "uniq_consumer_norm"

\* -------------------------------------------------------------- insert_meter
MsgBoth == "Duplicate not allowed: this Meter ID AND Consumer ID already exist (case-insensitive)."
MsgMeter == "Duplicate not allowed: this Meter ID already exists (case-insensitive)."
MsgConsumer == "Duplicate not allowed: this Consumer ID already exists (case-insensitive)."
MsgExactMeter == "Duplicate not allowed: this exact Meter ID already exists."
MsgExactConsumer == "Duplicate not allowed: this exact Consumer ID already exists."
MsgSameIds == "Duplicate not allowed: a meter already exists with the same ID(s)."

Truthy(s) == s # None /\ s[1] # <<>>

\* variant of MissingFields: raises on the first missing field
MissingFields_First(meter_id, consumer_id, value, image_file) ==
    IF ~(Truthy(meter_id) /\ Strip(meter_id[1]) # <<>>) THEN <<"Meter ID">>
    ELSE IF ~(Truthy(consumer_id) /\ Strip(consumer_id[1]) # <<>>) THEN <<"Consumer ID">>
    ELSE IF value = None THEN <<"Value">>
    ELSE IF image_file = None THEN <<"Image">>
    ELSE <<>>

MissingFields(meter_id, consumer_id, value, image_file) ==
    (IF ~(Truthy(meter_id) /\ Strip(meter_id[1]) # <<>>) THEN <<"Meter ID">> ELSE <<>>)
    \o (IF ~(Truthy(consumer_id) /\ Strip(consumer_id[1]) # <<>>) THEN <<"Consumer ID">> ELSE <<>>)
    \o (IF value = None THEN <<"Value">> ELSE <<>>)
    \o (IF image_file = None THEN <<"Image">> ELSE <<>>)

MissingMessage(missing) == <<"Missing field(s):">> \o missing

\* documents the pre-check's find_one may return
PrecheckHits(meter_id_n, consumer_id_n) ==
    { i \in DOMAIN meters :
        \/ meters[i].meter_id_norm = meter_id_n
        \/ meters[i].consumer_id_norm = consumer_id_n }

PrecheckMessage(hit, meter_id_n, consumer_id_n) ==
    IF hit.meter_id_norm = meter_id_n /\ hit.consumer_id_norm = consumer_id_n THEN MsgBoth
    ELSE IF hit.meter_id_norm = meter_id_n THEN MsgMeter
    ELSE MsgConsumer

\* insert_meter up to and including the pre-check's find_one
InsertMeterBegin(p, meter_id, consumer_id, value, image_file) ==
    /\ pc[p] = "idle"
    /\ UNCHANGED <<meters, blobs, next_oid, now, true_deletes>>
    /\ LET missing == MissingFields(meter_id, consumer_id, value, image_file)
           meter_id_n == norm(meter_id)
           consumer_id_n == norm(consumer_id)
           hits == PrecheckHits(meter_id_n, consumer_id_n)
       IN  IF missing # <<>>
           THEN Finish(p, ValueError("insert_meter", MissingMessage(missing)))
           ELSE IF hits # {}
           THEN \E h \in hits :
                   Finish(p, ValueError("insert_meter",
                       <<PrecheckMessage(meters[h], meter_id_n, consumer_id_n)>>))
           ELSE Goto(p, "save_image",
                   [op |-> "insert_meter", meter_id_n |-> meter_id_n,
                    consumer_id_n |-> consumer_id_n, value |-> value[1],
                    image_file |-> image_file[1]])

\* variant of SaveImage: an id is returned for bytes that were not stored
SaveImage_NotStored(p, max_oid) ==
    /\ pc[p] = "save_image"
    /\ next_oid <= max_oid
    /\ next_oid' = next_oid + 1
    /\ Goto(p, "created_at", [op |-> "insert_meter", meter_id_n |-> loc[p].meter_id_n,
                              consumer_id_n |-> loc[p].consumer_id_n, value |-> loc[p].value,
                              img_id |-> next_oid])
    /\ UNCHANGED <<meters, blobs, now, true_deletes>>

\* save_image: fs.put stores the bytes under a fresh id
SaveImage(p, max_oid) ==
    /\ pc[p] = "save_image"
    /\ next_oid <= max_oid
    /\ blobs' = (next_oid :> loc[p].image_file) @@ blobs
    /\ next_oid' = next_oid + 1
    /\ Goto(p, "created_at", [op |-> "insert_meter", meter_id_n |-> loc[p].meter_id_n,
                              consumer_id_n |-> loc[p].consumer_id_n, value |-> loc[p].value,
                              img_id |-> next_oid])
    /\ UNCHANGED <<meters, now, true_deletes>>

\* "created_at": datetime.utcnow()
StampCreated(p) ==
    /\ pc[p] = "created_at"
    /\ Goto(p, "updated_at", [op |-> "insert_meter", meter_id_n |-> loc[p].meter_id_n,
                              consumer_id_n |-> loc[p].consumer_id_n, value |-> loc[p].value,
                              img_id |-> loc[p].img_id, created_at |-> now])
    /\ UNCHANGED <<meters, blobs, next_oid, now, true_deletes>>

\* "updated_at": datetime.utcnow(); doc is complete
StampUpdated(p) ==
    /\ pc[p] = "updated_at"
    /\ Goto(p, "insert_one",
            [op |-> "insert_meter",
             doc |-> [meter_id |-> loc[p].meter_id_n,
                      consumer_id |-> loc[p].consumer_id_n,
                      meter_id_norm |-> loc[p].meter_id_n,
                      consumer_id_norm |-> loc[p].consumer_id_n,
                      value |-> loc[p].value,
                      image_file_id |-> loc[p].img_id,
                      created_at |-> loc[p].created_at,
                      updated_at |-> now]])
    /\ UNCHANGED <<meters, blobs, next_oid, now, true_deletes>>

DuplicateMessage(index) ==
    IF NameInMessage("uniq_meter_norm", index) THEN MsgMeter
    ELSE IF NameInMessage("uniq_consumer_norm", index) THEN MsgConsumer
    ELSE IF NameInMessage("uniq_meter_id", index) THEN MsgExactMeter
    ELSE IF NameInMessage("uniq_consumer", index) THEN MsgExactConsumer
    ELSE MsgSameIds

\* db.meters.insert_one(doc) and the DuplicateKeyError handler
InsertOne(p, max_oid) ==
    /\ pc[p] = "insert_one"
    /\ UNCHANGED <<blobs, now, true_deletes>>
    /\ LET doc == loc[p].doc
           violated == ViolatedIndexes(doc)
       IN  IF violated = {}
           THEN /\ next_oid <= max_oid
                /\ meters' = (next_oid :> doc) @@ meters
                /\ next_oid' = next_oid + 1
                /\ Finish(p, Returned("insert_meter", "inserted_id"))
           ELSE /\ \E index \in violated :
                       Finish(p, ValueError("insert_meter", <<DuplicateMessage(index)>>))
                /\ UNCHANGED <<meters, next_oid>>

\* the add form's submit handler: its own checks, then insert_meter
AddFormSubmit(p, meter_id, consumer_id, value_str, image_file) ==
    IF ~IsNumeric(value_str)
    THEN /\ pc[p] = "idle"
         /\ Finish(p, ValueError("add_form", <<"could not convert string to float">>))
         /\ UNCHANGED <<meters, blobs, next_oid, now, true_deletes>>
    ELSE IF Strip(meter_id) = <<>>
    THEN /\ pc[p] = "idle"
         /\ Finish(p, ValueError("add_form", <<"Meter ID is missing.">>))
         /\ UNCHANGED <<meters, blobs, next_oid, now, true_deletes>>
    ELSE IF Strip(consumer_id) = <<>>
    THEN /\ pc[p] = "idle"
         /\ Finish(p, ValueError("add_form", <<"Consumer ID is missing.">>))
         /\ UNCHANGED <<meters, blobs, next_oid, now, true_deletes>>
    ELSE IF image_file = None
    THEN /\ pc[p] = "idle"
         /\ Finish(p, ValueError("add_form", <<"Image is missing.">>))
         /\ UNCHANGED <<meters, blobs, next_oid, now, true_deletes>>
    ELSE InsertMeterBegin(p, Some(meter_id), Some(consumer_id), Some(FloatOf(value_str)), image_file)

\* -------------------------------------------------------------- update_value
\* variant of UpdateOne: the $set also writes created_at
UpdateOne_SetsCreated(coll, _id, new_value, t) ==
    IF _id \in DOMAIN coll
    THEN [coll EXCEPT ![_id].value = new_value, ![_id].updated_at = t, ![_id].created_at = t]
    ELSE coll

\* update_one({"_id": _id}, {"$set": {...}}): no upsert
UpdateOne(coll, _id, new_value, t) ==
    IF _id \in DOMAIN coll
    THEN [coll EXCEPT ![_id].value = new_value, ![_id].updated_at = t]
    ELSE coll

UpdateValue(p, _id, new_value) ==
    /\ pc[p] = "idle"
    /\ meters' = UpdateOne(meters, _id, new_value, now)
    /\ Finish(p, Returned("update_value", "None"))
    /\ UNCHANGED <<blobs, next_oid, now, true_deletes>>

\* -------------------------------------------------------------- delete_meter
\* doc = find_one({"_id": _id}); if not doc: return False
DeleteFind(p, _id) ==
    /\ pc[p] = "idle"
    /\ IF _id \in DOMAIN meters
       THEN Goto(p, "fs_delete",
                 [op |-> "delete_meter", id |-> _id, img_id |-> meters[_id].image_file_id])
       ELSE Finish(p, Returned("delete_meter", "False"))
    /\ UNCHANGED <<meters, blobs, next_oid, now, true_deletes>>

\* what fs.delete(img_id) leaves when it succeeds
FsDelete(fs, img_id) == [b \in DOMAIN fs \ {img_id} |-> fs[b]]

\* try: fs.delete(img_id) / except Exception: pass
DeleteBlob(p) ==
    /\ pc[p] = "fs_delete"
    /\ \E raised \in BOOLEAN :
          /\ blobs' = IF raised THEN blobs ELSE FsDelete(blobs, loc[p].img_id)
          /\ Goto(p, "delete_one", [op |-> "delete_meter", id |-> loc[p].id,
                                    img_id |-> loc[p].img_id, fs_raised |-> raised])
    /\ UNCHANGED <<meters, next_oid, now, true_deletes>>

\* delete_one({"_id": _id}).deleted_count
DeletedCount(coll, _id) == IF _id \in DOMAIN coll THEN 1 ELSE 0

DeleteOne(coll, _id) == [i \in DOMAIN coll \ {_id} |-> coll[i]]

\* variant of DeleteReturn: return True once the document was found
DeleteReturn_True(coll, _id) == "True"

\* return db.meters.delete_one({"_id": _id}).deleted_count == 1
DeleteReturn(coll, _id) == IF DeletedCount(coll, _id) = 1 THEN "True" ELSE "False"

TrueDeletes(_id) == IF _id \in DOMAIN true_deletes THEN true_deletes[_id] ELSE 0

DeleteRow(p) ==
    /\ pc[p] = "delete_one"
    /\ meters' = DeleteOne(meters, loc[p].id)
    /\ true_deletes' = IF DeleteReturn(meters, loc[p].id) = "True"
                       THEN (loc[p].id :> TrueDeletes(loc[p].id) + 1) @@ true_deletes
                       ELSE true_deletes
    /\ Finish(p, Returned("delete_meter", DeleteReturn(meters, loc[p].id)))
    /\ UNCHANGED <<blobs, next_oid, now>>

\* ----------------------------------------------------------- get_image_bytes
\* fs.get(file_id).read(), None when the file is not there
get_image_bytes(fs, file_id) == IF file_id \in DOMAIN fs THEN Some(fs[file_id]) ELSE None

\* -------------------------------------------------------------- query_meters
\* the filters of query_meters applied to one document
Matches(doc, q, consumer_filter) ==
    /\ q # <<>> => (RegexSearchI(q, doc.meter_id) \/ RegexSearchI(q, doc.consumer_id))
    /\ consumer_filter # <<>> => RegexFullI(consumer_filter, doc.consumer_id)

Matching(coll, q, consumer_filter) ==
    { i \in DOMAIN coll : Matches(coll[i], q, consumer_filter) }

\* sort_field[0]
SortField(sort_by) ==
    CASE sort_by = "Created" -> "created_at"
      [] sort_by = "Meter ID" -> "meter_id"
      [] sort_by = "Consumer ID" -> "consumer_id"
      [] sort_by = "Value" -> "value"

\* direction = DESCENDING if sort_dir is the down arrow else ASCENDING
Direction(sort_dir) == IF sort_dir = ArrowDown THEN -1 ELSE 1

\* the store's order on the values of a field
KeyLess(field, a, b) ==
    IF field \in {"meter_id", "consumer_id"} THEN StrLess(a, b) ELSE a < b

\* cursor.sort: a must come before b
SortsBefore(coll, field, direction, a, b) ==
    IF direction = 1
    THEN KeyLess(field, coll[a][field], coll[b][field])
    ELSE KeyLess(field, coll[b][field], coll[a][field])

\* the orders find(filters).sort(...) may produce (ties in any order)
SortedCursors(coll, ids, field, direction) ==
    { s \in [1..Cardinality(ids) -> ids] :
        /\ \A i, j \in DOMAIN s : i # j => s[i] # s[j]
        /\ \A i, j \in DOMAIN s : i < j => ~SortsBefore(coll, field, direction, s[j], s[i]) }

\* cursor.skip(n)
Skip(s, n) == SubSeq(s, n + 1, Len(s))

\* variant of SkipCount: skip(page)
SkipCount_Page(page, page_size) == page

\* the argument of skip
SkipCount(page, page_size) == page * page_size

\* cursor.limit(n): 0 is no limit
Limit(s, n) == IF n = 0 \/ n >= Len(s) THEN s ELSE SubSeq(s, 1, n)

\* total_matching = db.meters.count_documents(filters)
QueryCount(p, q, consumer_filter, sort_by, sort_dir, page, page_size) ==
    /\ pc[p] = "idle"
    /\ Goto(p, "find",
            [op |-> "query_meters", q |-> q, consumer_filter |-> consumer_filter,
             sort_by |-> sort_by, sort_dir |-> sort_dir, page |-> page,
             page_size |-> page_size,
             total_matching |-> Cardinality(Matching(meters, q, consumer_filter))])
    /\ UNCHANGED <<meters, blobs, next_oid, now, true_deletes>>

\* list(find(filters).sort(...).skip(page * page_size).limit(page_size))
QueryFind(p) ==
    /\ pc[p] = "find"
    /\ \E s \in SortedCursors(meters, Matching(meters, loc[p].q, loc[p].consumer_filter),
                              SortField(loc[p].sort_by), Direction(loc[p].sort_dir)) :
          Finish(p, [op |-> "query_meters", status |-> "ok", msg |-> <<>>,
                     args |-> [q |-> loc[p].q, consumer_filter |-> loc[p].consumer_filter,
                               sort_by |-> loc[p].sort_by, sort_dir |-> loc[p].sort_dir,
                               page |-> loc[p].page, page_size |-> loc[p].page_size],
                     docs |-> Limit(Skip(s, SkipCount(loc[p].page, loc[p].page_size)),
                                   loc[p].page_size),
                     total_matching |-> loc[p].total_matching])
    /\ UNCHANGED <<meters, blobs, next_oid, now, true_deletes>>

\* ------------------------------------------------------------- environment
Tick(max_clock) ==
    /\ now < max_clock
    /\ now' = now + 1
    /\ UNCHANGED <<meters, blobs, next_oid, pc, loc, result, true_deletes>>

\* a pending store call raises (store unreachable); the exception propagates
StoreError(p) ==
    /\ pc[p] \in {"save_image", "insert_one", "delete_one", "find"}
    /\ Finish(p, StoreUnavailable(loc[p].op))
    /\ UNCHANGED <<meters, blobs, next_oid, now, true_deletes>>

\* ------------------------------------------------------------ specifications
\* the calls a session makes on the record store, their arguments drawn from
\* the given sets
StoreStep(p, max_oid, meter_ids, consumer_ids, values, images, new_values) ==
    \/ \E m \in meter_ids, c \in consumer_ids, v \in values, f \in images :
          InsertMeterBegin(p, m, c, v, f)
    \/ SaveImage(p, max_oid)
    \/ StampCreated(p)
    \/ StampUpdated(p)
    \/ InsertOne(p, max_oid)
    \/ \E i \in Oids(max_oid), v \in new_values : UpdateValue(p, i, v)
    \/ \E i \in Oids(max_oid) : DeleteFind(p, i)
    \/ DeleteBlob(p)
    \/ DeleteRow(p)
    \/ StoreError(p)
    \/ Done(p)

\* Spec: concurrent sessions calling insert_meter (all arguments given),
\* update_value and delete_meter
Next ==
    \/ \E p \in Clients :
          StoreStep(p, MaxOid, {Some(m) : m \in RaceMeterIdInputs},
                    {Some(c) : c \in RaceConsumerIdInputs},
                    {Some(v) : v \in CreateValueInputs}, {Some(f) : f \in ImageInputs},
                    NewValueInputs)
    \/ Tick(MaxClock)

Spec == Init /\ [][Next]_vars

\* SpecCreate: one session creating records, by insert_meter with every
\* argument possibly missing and by the add form
NextCreate ==
    \/ \E m \in Opt(MeterIdInputs), c \in Opt(ConsumerIdInputs),
          v \in Opt(CreateValueInputs), f \in Opt(ImageInputs) : InsertMeterBegin(1, m, c, v, f)
    \/ \E m \in MeterIdInputs, c \in ConsumerIdInputs, v \in ValueStrInputs, f \in Opt(ImageInputs) :
          AddFormSubmit(1, m, c, v, f)
    \/ SaveImage(1, MaxOid)
    \/ StampCreated(1)
    \/ StampUpdated(1)
    \/ InsertOne(1, MaxOid)
    \/ StoreError(1)
    \/ Done(1)
    \/ Tick(MaxClock)

SpecCreate == Init /\ [][NextCreate]_vars

\* SpecQuery: one session filling the collection and querying it
NextQuery ==
    \/ \E a \in QueryCreateInputs :
          InsertMeterBegin(1, Some(a[1]), Some(a[2]), Some(a[3]), Some("png"))
    \/ SaveImage(1, QueryMaxOid)
    \/ StampCreated(1)
    \/ StampUpdated(1)
    \/ InsertOne(1, QueryMaxOid)
    \/ \E q \in QueryTextInputs, f \in ConsumerFilterInputs, sort_by \in SortByInputs,
          sort_dir \in SortDirInputs, page \in 0..MaxPage, page_size \in 1..MaxPageSize :
          QueryCount(1, q, f, sort_by, sort_dir, page, page_size)
    \/ QueryFind(1)
    \/ StoreError(1)
    \/ Done(1)
    \/ Tick(MaxClock)

SpecQuery == Init /\ [][NextQuery]_vars

\* ------------------------------------------------------------------ claims
Range2(s) == {s[i] : i \in DOMAIN s}
Min(a, b) == IF a < b THEN a ELSE b
Max(a, b) == IF a > b THEN a ELSE b

MeterHeld(meter_id_n) == \E i \in DOMAIN meters : meters[i].meter_id_norm = meter_id_n
ConsumerHeld(consumer_id_n) == \E i \in DOMAIN meters : meters[i].consumer_id_norm = consumer_id_n

\* the message the three-case taxonomy gives for the canonical ids of a create
TaxonomyMessage(meter_id_n, consumer_id_n) ==
    IF MeterHeld(meter_id_n) /\ ConsumerHeld(consumer_id_n) THEN MsgBoth
    ELSE IF MeterHeld(meter_id_n) THEN MsgMeter
    ELSE MsgConsumer

\* the step is one of p's insert_meter, from its call to its pre-check
BeginsInsertMeter(p) ==
    /\ pc[p] = "idle"
    /\ \/ pc'[p] = "save_image"
       \/ pc'[p] = "returned" /\ result'[p].op = "insert_meter"

\* C1: in every reachable state no two persisted records have the same
\* canonical meter id and no two have the same canonical consumer id, the
\* canonical form being the trimmed, uppercased one.
C1_UniqueCanonicalIds ==
    /\ \A i, j \in DOMAIN meters :
          i # j => /\ meters[i].meter_id_norm # meters[j].meter_id_norm
                   /\ meters[i].consumer_id_norm # meters[j].consumer_id_norm
    /\ \A i \in DOMAIN meters :
          /\ meters[i].meter_id_norm = norm(Some(meters[i].meter_id_norm))
          /\ meters[i].consumer_id_norm = norm(Some(meters[i].consumer_id_norm))

\* a create that passed its pre-check is about to insert a colliding document
C1_Witness ==
    \E p \in Clients :
        /\ pc[p] = "insert_one"
        /\ ViolatedIndexes(loc[p].doc) # {}

\* C2: a create with all four inputs given whose pre-check finds a collision
\* raises the message of the three-case taxonomy: both fields when both
\* canonical ids are held (by one record or by two), else the one held.
C2_PrecheckTaxonomy ==
    [][\A p \in Clients, m \in Opt(MeterIdInputs), c \in Opt(ConsumerIdInputs),
          v \in Opt(CreateValueInputs), f \in Opt(ImageInputs) :
          ( /\ BeginsInsertMeter(p)
            /\ InsertMeterBegin(p, m, c, v, f)
            /\ m # None /\ Strip(m[1]) # <<>> /\ c # None /\ Strip(c[1]) # <<>>
            /\ v # None /\ f # None
            /\ (MeterHeld(norm(m)) \/ ConsumerHeld(norm(c))) )
          => result'[p] = ValueError("insert_meter", <<TaxonomyMessage(norm(m), norm(c))>>)
      ]_vars

\* C3: a create whose insert the store rejects for a uniqueness violation
\* raises the message of the same three-case taxonomy and leaves no row.
C3_RaceLostTaxonomy ==
    [][\A p \in Clients :
          ( /\ pc[p] = "insert_one"
            /\ InsertOne(p, MaxOid)
            /\ (MeterHeld(loc[p].doc.meter_id_norm) \/ ConsumerHeld(loc[p].doc.consumer_id_norm)) )
          => /\ result'[p] = ValueError("insert_meter",
                    <<TaxonomyMessage(loc[p].doc.meter_id_norm, loc[p].doc.consumer_id_norm)>>)
             /\ meters' = meters
      ]_vars

\* an optional id is missing: absent, or blank once trimmed
IsBlank(s) == s = None \/ \A i \in DOMAIN s[1] : s[1][i] = " "

MissingSet(m, c, v, f) ==
    {x \in {"Meter ID"} : IsBlank(m)} \cup {x \in {"Consumer ID"} : IsBlank(c)}
    \cup {x \in {"Value"} : v = None} \cup {x \in {"Image"} : f = None}

\* C4: create with some inputs missing raises one ValueError listing exactly
\* the missing fields, each once; and a create that raises a ValueError in its
\* validation or pre-check changes neither the collection nor the blob store.
C4_ValidationListsAllMissing ==
    [][\A p \in Clients, m \in Opt(MeterIdInputs), c \in Opt(ConsumerIdInputs),
          v \in Opt(CreateValueInputs), f \in Opt(ImageInputs) :
          (BeginsInsertMeter(p) /\ InsertMeterBegin(p, m, c, v, f))
          => /\ MissingSet(m, c, v, f) # {}
                => /\ result'[p].op = "insert_meter"
                   /\ result'[p].status = "ValueError"
                   /\ Head(result'[p].msg) = "Missing field(s):"
                   /\ Range2(Tail(result'[p].msg)) = MissingSet(m, c, v, f)
                   /\ Len(Tail(result'[p].msg)) = Cardinality(MissingSet(m, c, v, f))
             /\ MissingSet(m, c, v, f) = {}
                => (result'[p].status = "ValueError" => Head(result'[p].msg) # "Missing field(s):")
             /\ result'[p].status = "ValueError" => (meters' = meters /\ blobs' = blobs)
      ]_vars

\* create without consumer id and image has raised, naming both
C4_Witness ==
    \E p \in Clients :
        result[p] = ValueError("insert_meter", <<"Missing field(s):", "Consumer ID", "Image">>)

\* C5: a record enters the collection only in the insert step of a create
\* whose put succeeded before: at that moment its image_file_id names a blob
\* that is in the blob store.
C5_BlobBeforeRecord ==
    [][\A i \in DOMAIN meters' \ DOMAIN meters :
          /\ meters'[i].image_file_id \in DOMAIN blobs
          /\ meters'[i].image_file_id \in DOMAIN blobs'
          /\ \E p \in Clients : pc[p] = "insert_one" /\ loc[p].doc = meters'[i]
      ]_vars

Orphans == {b \in DOMAIN blobs : \A i \in DOMAIN meters : meters[i].image_file_id # b}

\* a create has inserted its record, another has left an orphan blob behind
C5_Witness ==
    /\ \E p \in Clients : result[p] = Returned("insert_meter", "inserted_id")
    /\ \E p \in Clients : result[p].op = "insert_meter" /\ result[p].status # "inserted_id"
    /\ Orphans # {}
    /\ \A i \in DOMAIN meters : meters[i].image_file_id \in DOMAIN blobs

\* C6: delete returns True exactly when its own delete_one removed the row;
\* then the blob is gone too unless its deletion raised, and a removed blob
\* stays absent; delete of an id without a record returns False and changes
\* nothing; no id has more than one delete returning True.
C6_DeleteReturnsWhetherRemoved ==
    [][/\ \A p \in Clients :
             (pc[p] = "delete_one" /\ result'[p].op = "delete_meter"
                 /\ result'[p].status \in {"True", "False"})
             => /\ result'[p].status = "True"
                   <=> (loc[p].id \in DOMAIN meters /\ loc[p].id \notin DOMAIN meters')
                /\ (result'[p].status = "True" /\ ~loc[p].fs_raised)
                   => get_image_bytes(blobs', loc[p].img_id) = None
       /\ \A p \in Clients, i \in Oids(MaxOid) :
             DeleteFind(p, i)
             => IF i \in DOMAIN meters
                THEN pc'[p] = "fs_delete"
                ELSE /\ result'[p] = Returned("delete_meter", "False")
                     /\ meters' = meters /\ blobs' = blobs
       /\ \A b \in Oids(MaxOid) :
             (b < next_oid /\ get_image_bytes(blobs, b) = None)
             => get_image_bytes(blobs', b) = None
       /\ \A i \in DOMAIN true_deletes' : true_deletes'[i] <= 1
      ]_vars

\* a delete has returned True and a concurrent delete of the same id is about
\* to call delete_one
C6_Witness ==
    \E p, q \in Clients :
        /\ p # q
        /\ result[p] = Returned("delete_meter", "True")
        /\ pc[q] = "delete_one"
        /\ TrueDeletes(loc[q].id) = 1

\* C7: update_value leaves the blob store, the set of records and every other
\* record as they were; of the record with the id it changes value and
\* updated_at only; with no such record it changes nothing and returns None.
C7_UpdateFrame ==
    [][\A p \in Clients, i \in Oids(MaxOid), v \in NewValueInputs :
          UpdateValue(p, i, v)
          => /\ blobs' = blobs
             /\ DOMAIN meters' = DOMAIN meters
             /\ \A j \in DOMAIN meters : j # i => meters'[j] = meters[j]
             /\ i \in DOMAIN meters
                => /\ meters'[i].value = v
                   /\ meters'[i].updated_at = now
                   /\ \A k \in {"meter_id", "consumer_id", "meter_id_norm",
                                "consumer_id_norm", "image_file_id", "created_at"} :
                         meters'[i][k] = meters[i][k]
             /\ result'[p] = Returned("update_value", "None")
      ]_vars

\* a record updated after its creation while a delete of it is in flight
C7_Witness ==
    \E i \in DOMAIN meters, q \in Clients :
        /\ meters[i].value = 2
        /\ meters[i].updated_at > meters[i].created_at
        /\ pc[q] = "delete_one" /\ loc[q].id = i

\* the value query_meters sorts the record i by
SortKey(i, sort_by) ==
    CASE sort_by = "Created" -> meters[i].created_at
      [] sort_by = "Meter ID" -> meters[i].meter_id
      [] sort_by = "Consumer ID" -> meters[i].consumer_id
      [] sort_by = "Value" -> meters[i].value

\* record i comes strictly before record j in the order asked for
Precedes(i, j, sort_by, sort_dir) ==
    LET a == IF sort_dir = ArrowDown THEN SortKey(j, sort_by) ELSE SortKey(i, sort_by)
        b == IF sort_dir = ArrowDown THEN SortKey(i, sort_by) ELSE SortKey(j, sort_by)
    IN  IF sort_by \in {"Meter ID", "Consumer ID"} THEN StrLess(a, b) ELSE a < b

\* C8: query returns as total the number of records matching the filters,
\* whatever the page, and as records the positions page*pageSize+1 ..
\* page*pageSize+pageSize of the matching records in the order asked for:
\* that many (or as many as are left), all different, in order, each at a
\* position its rank among the matching records allows.
C8_QueryPage ==
    \A p \in Clients :
        result[p].op = "query_meters" /\ result[p].status = "ok"
        => LET a == result[p].args
               docs == result[p].docs
               M == Matching(meters, a.q, a.consumer_filter)
               first == a.page * a.page_size
           IN  /\ result[p].total_matching = Cardinality(M)
               /\ Len(docs) = Max(0, Min(a.page_size, Cardinality(M) - first))
               /\ \A k \in DOMAIN docs : docs[k] \in M
               /\ \A k, l \in DOMAIN docs :
                     k < l => /\ docs[k] # docs[l]
                              /\ ~Precedes(docs[l], docs[k], a.sort_by, a.sort_dir)
               /\ \A k \in DOMAIN docs :
                     /\ Cardinality({i \in M : Precedes(i, docs[k], a.sort_by, a.sort_dir)})
                           <= first + k - 1
                     /\ Cardinality({i \in M : ~Precedes(docs[k], i, a.sort_by, a.sort_dir)})
                           >= first + k

\* three records, no filter, Created descending, page 0 of size 2: the two
\* newest, newest first, and a total of 3
C8_Witness ==
    \E p \in Clients :
        /\ Cardinality(DOMAIN meters) = 3
        /\ result[p].op = "query_meters" /\ result[p].status = "ok"
        /\ result[p].args = [q |-> <<>>, consumer_filter |-> <<>>, sort_by |-> "Created",
                             sort_dir |-> ArrowDown, page |-> 0, page_size |-> 2]
        /\ result[p].total_matching = 3
        /\ Len(result[p].docs) = 2
        /\ \E i \in DOMAIN meters :
              /\ i \notin Range2(result[p].docs)
              /\ meters[i].created_at < meters[result[p].docs[2]].created_at
              /\ meters[result[p].docs[2]].created_at <= meters[result[p].docs[1]].created_at

\* C9: a record is inserted with created_at equal to updated_at; created_at
\* never changes afterwards; updated_at is never before created_at.
C9_Timestamps ==
    [][/\ \A i \in DOMAIN meters' \ DOMAIN meters :
             meters'[i].created_at = meters'[i].updated_at
       /\ \A i \in DOMAIN meters' \cap DOMAIN meters :
             meters'[i].created_at = meters[i].created_at
       /\ \A i \in DOMAIN meters' : meters'[i].updated_at >= meters'[i].created_at
      ]_vars

\* C10: when a function returns or raises, every record in the collection
\* has its blob in the blob store.
C10_RecordsKeepBlobs ==
    [][(\E p \in Clients : pc[p] # "returned" /\ pc'[p] = "returned")
       => \A i \in DOMAIN meters' : meters'[i].image_file_id \in DOMAIN blobs'
      ]_vars

====
